---- MODULE Spec2Model ----
(***************************************************************************)
(* A model of PDFContentExtractor (src/pdf_content_extractor.py): the      *)
(* heading classifier, the section cursor, the per-page assembler, the     *)
(* image pass and extract_content, with the pdfplumber, camelot and fitz   *)
(* collaborators as nondeterministic responses of bounded size.            *)
(*                                                                         *)
(* A string is a sequence of one-character strings; Python's None is the   *)
(* value None below.                                                       *)
(***************************************************************************)
EXTENDS Integers, Sequences, FiniteSets

\* ------------------------------------------------------------------ bounds

\* The pages of a document are 1..n for some n in 1..MaxPages.
MaxPages == 2

\* The size of what the collaborators return during one run: one unit per
\* text line, raw table, fallback table and image, and one per failure.
MaxInput == 3

\* extract_content is called at most MaxRuns times on one extractor.
MaxRuns == 2

\* ------------------------------------------------------- program constants

\* The position key of a fallback (camelot) table (line 211).
CamelotPosition == 300

\* The position key get_table_position falls back to (line 450).
DefaultPosition == 300

\* get_table_position places table i at (i + 1) * (page_height / 4) (line 448).
HeightDivisor == 4

\* ----------------------------------------------------------------- values

\* Python's None.  No string is this value: a string's elements have one
\* character each.
None == <<"None">>

\* The character classes of the patterns, over the model's alphabet.
Upper == {"A", "B", "C"}

Lower == {"a", "b", "e", "h", "p", "r", "t"}

Digit == {"0", "1"}

Space == {" "}

Letter == Upper \cup Lower

\* The sequences over S of length at most n.
BSeq(S, n) == UNION {[1..k -> S] : k \in 0..n}

\* ---------------------------------------------------------------- strings

\* s[i..j] are all of class C (true of the empty range).
AllIn(s, i, j, C) == \A k \in i..j : s[k] \in C

\* str.strip(): s without its leading and trailing whitespace.
Strip(s) ==
    IF AllIn(s, 1, Len(s), Space) THEN <<>>
    ELSE LET i == CHOOSE k \in 1..Len(s) :
                      s[k] \notin Space /\ AllIn(s, 1, k - 1, Space)
             j == CHOOSE k \in 1..Len(s) :
                      s[k] \notin Space /\ AllIn(s, k + 1, Len(s), Space)
         IN SubSeq(s, i, j)

\* sep.join(parts).
RECURSIVE Join(_, _)
Join(parts, sep) ==
    IF parts = <<>> THEN <<>>
    ELSE IF Len(parts) = 1 THEN parts[1]
    ELSE parts[1] \o sep \o Join(Tail(parts), sep)

\* re.sub(r'\s+', ' ', s): every run of whitespace becomes one space.
RECURSIVE CollapseSpaces(_)
CollapseSpaces(s) ==
    IF s = <<>> THEN <<>>
    ELSE IF s[1] \in Space
         THEN IF Len(s) > 1 /\ s[2] \in Space
              THEN CollapseSpaces(Tail(s))
              ELSE <<" ">> \o CollapseSpaces(Tail(s))
         ELSE <<s[1]>> \o CollapseSpaces(Tail(s))

\* ------------------------------------------------------ heading classifier

\* The tail every pattern shares, ([A-Za-z][A-Za-z\s]+)\s*$ (with First the
\* class of its first character), matched at k: the greedy group runs to
\* the end of s.
TitleAt(s, k, First) ==
    /\ k >= 1
    /\ k < Len(s)
    /\ s[k] \in First
    /\ AllIn(s, k + 1, Len(s), Letter \cup Space)

\* The first index of s past the whitespace that starts at i.
SkipSpaces(s, i) ==
    CHOOSE k \in i..(Len(s) + 1) :
        AllIn(s, i, k - 1, Space) /\ (k > Len(s) \/ s[k] \notin Space)

\* The first index of s past the digits that start at i.
SkipDigits(s, i) ==
    CHOOSE k \in i..(Len(s) + 1) :
        AllIn(s, i, k - 1, Digit) /\ (k > Len(s) \/ s[k] \notin Digit)

\* s has character c at i.
CharAt(s, i, c) == i >= 1 /\ i <= Len(s) /\ s[i] = c

\* Each pattern gives the group it captures, or None.
\* section_patterns[0]: ^\s*([A-Z][A-Za-z\s]+)\s*$
SectionPattern1(s) ==
    LET i == SkipSpaces(s, 1)
    IN IF TitleAt(s, i, Upper) THEN SubSeq(s, i, Len(s)) ELSE None

\* section_patterns[1]: ^\s*\d+\.\s+([A-Za-z][A-Za-z\s]+)\s*$
SectionPattern2(s) ==
    LET i == SkipSpaces(s, 1)
        j == SkipDigits(s, i)
        k == SkipSpaces(s, j + 1)
    IN IF j > i /\ CharAt(s, j, ".") /\ k > j + 1 /\ TitleAt(s, k, Letter)
       THEN SubSeq(s, k, Len(s)) ELSE None

\* section_patterns[2]: ^\s*([A-Z]+[A-Z\s]*[A-Z]+)\s*$
SectionPattern3(s) ==
    LET i == SkipSpaces(s, 1)
        t == Strip(s)
    IN IF /\ Len(t) >= 2
          /\ t[1] \in Upper
          /\ t[Len(t)] \in Upper
          /\ AllIn(t, 1, Len(t), Upper \cup Space)
       THEN SubSeq(s, i, i + Len(t) - 1) ELSE None

\* section_patterns[3]: ^\s*Chapter\s+\d+[:\.]?\s*([A-Za-z][A-Za-z\s]+)\s*$
SectionPattern4(s) ==
    LET word == <<"C", "h", "a", "p", "t", "e", "r">>
        i == SkipSpaces(s, 1)
        j == i + Len(word)
        k == SkipSpaces(s, j)
        l == SkipDigits(s, k)
        m == IF CharAt(s, l, ":") \/ CharAt(s, l, ".") THEN l + 1 ELSE l
        n == SkipSpaces(s, m)
    IN IF /\ j - 1 <= Len(s)
          /\ SubSeq(s, i, j - 1) = word
          /\ k > j
          /\ l > k
          /\ TitleAt(s, n, Letter)
       THEN SubSeq(s, n, Len(s)) ELSE None

\* subsection_patterns[0]: ^\s*\d+\.\d+\.?\s+([A-Za-z][A-Za-z\s]+)\s*$
SubsectionPattern1(s) ==
    LET i == SkipSpaces(s, 1)
        j == SkipDigits(s, i)
        k == SkipDigits(s, j + 1)
        l == IF CharAt(s, k, ".") THEN k + 1 ELSE k
        m == SkipSpaces(s, l)
    IN IF /\ j > i
          /\ CharAt(s, j, ".")
          /\ k > j + 1
          /\ m > l
          /\ TitleAt(s, m, Letter)
       THEN SubSeq(s, m, Len(s)) ELSE None

\* subsection_patterns[1] and [2]: ^\s*[a-z]\)\s+(...)\s*$ with Bullet the
\* class of the letter before the parenthesis.
BulletPattern(s, Bullet) ==
    LET i == SkipSpaces(s, 1)
        k == SkipSpaces(s, i + 2)
    IN IF /\ i <= Len(s)
          /\ s[i] \in Bullet
          /\ CharAt(s, i + 1, ")")
          /\ k > i + 2
          /\ TitleAt(s, k, Letter)
       THEN SubSeq(s, k, Len(s)) ELSE None

SubsectionPattern2(s) == BulletPattern(s, Lower)

SubsectionPattern3(s) == BulletPattern(s, Upper)

\* The first pattern that matches decides: match.group(1).strip().
FirstMatch(groups) ==
    IF \E n \in 1..Len(groups) : groups[n] # None
    THEN LET n == CHOOSE n \in 1..Len(groups) :
                      groups[n] # None /\ \A m \in 1..(n - 1) : groups[m] = None
         IN Strip(groups[n])
    ELSE None

detect_section(line) ==
    FirstMatch(<<SectionPattern1(line), SectionPattern2(line),
                 SectionPattern3(line), SectionPattern4(line)>>)

detect_subsection(line) ==
    FirstMatch(<<SubsectionPattern1(line), SubsectionPattern2(line),
                 SubsectionPattern3(line)>>)

\* Python's truth of an Optional[str]: neither None nor the empty string.
Truthy(v) == v # None /\ v # <<>>


\* -------------------------------------------------------------- the state

VARIABLES
    pc,                 \* where the extractor is: "init", "opened", "pages",
                        \* "lines", "annotate", "images", "returned", "raised"
    runs,               \* the calls of extract_content started so far
    camelot,            \* the module global: whether camelot was imported
    current_section,    \* self.current_section
    current_subsection, \* self.current_subsection
    result,             \* extract_content's result dictionary
    open_handles,       \* the document handles open: "pdf" (pdfplumber), "doc" (fitz)
    page_num,           \* the page loops' page_num (1-based in the text pass,
                        \* 0-based in the image pass)
    tables,             \* extract_page_content's tables
    lines,              \* extract_text_content's lines
    line_num,           \* the index (0-based) of the next line to walk
    current_paragraph,  \* extract_text_content's paragraph buffer
    content,            \* extract_text_content's content
    pdf,                \* the file, as far as the collaborators have returned it
    budget,             \* what is left of MaxInput
    found,              \* history: the headings matched in this run ("Found
                        \* section/subsection" of the log), with their place
    camelot_calls,      \* history: the camelot.read_pdf calls of this run
    prev                \* history: how the previous run ended and its pages

vars == <<pc, runs, camelot, current_section, current_subsection, result,
          open_handles, page_num, tables, lines, line_num, current_paragraph,
          content, pdf, budget, found, camelot_calls, prev>>

walker == <<tables, lines, line_num, current_paragraph, content>>

cursor == <<current_section, current_subsection>>

\* ------------------------------------------------- the collaborators' data

\* The lines a page's text is made of: a whitespace-only line, a section
\* heading, a subsection heading and a line of plain text.
LineVocab ==
    { <<" ">>,
      <<"A", "B">>,
      <<"1", ".", "1", " ", "a", "b">>,
      <<"a", "b">> }

\* The raw tables of pdfplumber: no row, a header alone, and a header with
\* one data row whose cells need cleaning.
RawTables ==
    { <<>>,
      << <<<<"A">>>> >>,
      << <<<<"A">>>>, <<None, <<" ", "a", " ", " ", "b">>>> >> }

\* The data frames of camelot's tables: an empty one and one with one row.
\* A column label is given as the string str() makes of it.
DataFrames ==
    { [columns |-> <<<<"0">>>>, values |-> <<>>],
      [columns |-> <<<<"0">>>>, values |-> << <<<<"a">>>> >>] }

\* The entries of page.get_images(): tuples whose first element is the xref.
ImageRefs == { <<1>>, <<2>> }

\* doc.extract_image(xref): xref 1 is an image of three bytes, any other
\* xref raises.
extract_image(xref) ==
    IF xref = 1
    THEN [kind |-> "ok", image |-> <<0, 0, 0>>, width |-> 2, height |-> 1,
          ext |-> "png"]
    ELSE [kind |-> "raise", image |-> <<>>, width |-> 0, height |-> 0,
          ext |-> ""]

\* page.height, in points.
PageHeights == {8}

\* What one response costs of the budget: a failure one unit, and every
\* line, table or image one unit.
Cost(r) ==
    IF r.kind \in {"raise", "missing"} THEN 1
    ELSE IF r.kind \in {"ok", "text"} THEN Len(r.items)
    ELSE 0

RECURSIVE TotalCost(_)
TotalCost(rs) == IF rs = <<>> THEN 0 ELSE Cost(rs[1]) + TotalCost(Tail(rs))

\* A response: how the call ended, and the items it returned.
Response(kind, items) == [kind |-> kind, items |-> items]

\* The responses of size at most b: a failure, or at most b items of S.
Responses(S, b) ==
    {Response("ok", s) : s \in BSeq(S, b)}
        \cup (IF b >= 1 THEN {Response("raise", <<>>)} ELSE {})

\* The response of a call the run has not made.
NotCalled == Response("notcalled", <<>>)

\* self.pdf_path.exists() and pdfplumber.open(): the file is missing, cannot
\* be opened, or opens.
OpenResponses(b) ==
    {Response("opened", <<>>)}
        \cup (IF b >= 1 THEN {Response("missing", <<>>), Response("raise", <<>>)}
              ELSE {})

\* len(pdf.pages): the number of pages (which costs nothing), or a failure.
CountResponses(b) ==
    {Response("count", <<n>>) : n \in 1..MaxPages}
        \cup (IF b >= 1 THEN {Response("raise", <<>>)} ELSE {})

\* page.extract_text(): raises, returns nothing, or a text of some lines
\* (text.split('\n'), which has a line at least).
TextResponses(b) ==
    {Response("text", s) : s \in BSeq(LineVocab, b) \ {<<>>}}
        \cup {Response("none", <<>>)}
        \cup (IF b >= 1 THEN {Response("raise", <<>>)} ELSE {})

\* page.height: a height (which costs nothing), or a failure.
HeightResponses(b) ==
    {Response("height", <<h>>) : h \in PageHeights}
        \cup (IF b >= 1 THEN {Response("raise", <<>>)} ELSE {})

\* fitz: opening fails, or every page's get_images() is as the file has it
\* (len(doc) is n, the number of pages pdfplumber found in the same file).
ImageResponses(n, b) ==
    {Response("images", f) : f \in {g \in [1..n -> Responses(ImageRefs, b)] :
                                       TotalCost(g) <= b}}
        \cup (IF b >= 1 THEN {Response("raise", <<>>)} ELSE {})

\* The first run reads the file; a later run finds it unchanged.
Replay == runs > 1


\* --------------------------------------------------------- content items

\* create_paragraph_dict(text, page_num, line_num); it reads the cursor.
create_paragraph_dict(text, p, ln) ==
    [type |-> "paragraph",
     section |-> current_section,
     sub_section |-> current_subsection,
     text |-> Strip(text),
     _position |-> ln]

\* clean_table_data's cell: None becomes "", any other cell is stripped
\* and its whitespace collapsed (str() of a string is the string).
CleanCell(cell) ==
    IF cell = None THEN <<>> ELSE CollapseSpaces(Strip(cell))

\* clean_table_data(table_data).
clean_table_data(table_data) ==
    [r \in 1..Len(table_data) |->
        [c \in 1..Len(table_data[r]) |-> CleanCell(table_data[r][c])]]

\* get_table_position(page, table_index), with h the response of page.height.
get_table_position(h, table_index) ==
    IF h.kind = "height"
    THEN (table_index + 1) * (h.items[1] \div HeightDivisor)
    ELSE DefaultPosition

\* KeepsTable with the comparison of line 180 off by one.
KeepsTableOffByOne(table_data) == table_data # <<>> /\ Len(table_data) >= 1

\* The condition on a raw table of the primary source (line 180).
KeepsTable(table_data) == table_data # <<>> /\ Len(table_data) > 1

\* The condition on a table of the fallback source (line 200): not df.empty.
KeepsFrame(df) == ~(Len(df.columns) = 0 \/ Len(df.values) = 0)

\* The table dictionary of lines 181-188, for the table at index i (0-based).
PrimaryDict(table_data, i, p, h) ==
    [type |-> "table",
     section |-> current_section,
     sub_section |-> current_subsection,
     description |-> [label |-> "Table", index |-> i + 1, page |-> p,
                      suffix |-> ""],
     table_data |-> clean_table_data(table_data),
     _position |-> get_table_position(h, i)]

\* The table dictionary of lines 201-212, for the table at index i (0-based).
CamelotDict(df, i, p) ==
    [type |-> "table",
     section |-> current_section,
     sub_section |-> current_subsection,
     description |-> [label |-> "Table", index |-> i + 1, page |-> p,
                      suffix |-> "(camelot)"],
     table_data |-> clean_table_data(<<df.columns>> \o df.values),
     _position |-> CamelotPosition]

\* The loop of lines 179-190 over page_tables[i..], i 0-based.
RECURSIVE PrimaryLoop(_, _, _, _)
PrimaryLoop(page_tables, i, p, h) ==
    IF i >= Len(page_tables) THEN <<>>
    ELSE (IF KeepsTable(page_tables[i + 1])
          THEN <<PrimaryDict(page_tables[i + 1], i, p, h)>>
          ELSE <<>>) \o PrimaryLoop(page_tables, i + 1, p, h)

\* The loop of lines 199-213 over camelot_tables[i..], i 0-based.
RECURSIVE CamelotLoop(_, _, _)
CamelotLoop(camelot_tables, i, p) ==
    IF i >= Len(camelot_tables) THEN <<>>
    ELSE (IF KeepsFrame(camelot_tables[i + 1])
          THEN <<CamelotDict(camelot_tables[i + 1], i, p)>>
          ELSE <<>>) \o CamelotLoop(camelot_tables, i + 1, p)

\* The tables of lines 175-193: those kept of page.extract_tables(), none
\* when it raises.
PrimaryTables(t, h, p) ==
    IF t.kind = "raise" THEN <<>> ELSE PrimaryLoop(t.items, 0, p, h)

\* Whether any table of t gets a position, so that page.height is read.
ReadsHeight(t) ==
    t.kind = "ok" /\ \E i \in 1..Len(t.items) : KeepsTable(t.items[i])

\* TriesCamelot without the test of len(tables).
TriesCamelotAlways(t, h, p) == camelot

\* The condition of line 196: camelot is there and no table was kept.
TriesCamelot(t, h, p) == camelot /\ Len(PrimaryTables(t, h, p)) = 0

\* extract_tables(page, page_num), with t, h and c the responses of
\* page.extract_tables(), page.height and camelot.read_pdf().
extract_tables(t, h, c, p) ==
    LET primary == PrimaryTables(t, h, p)
    IN IF TriesCamelot(t, h, p) /\ c.kind = "ok"
       THEN primary \o CamelotLoop(c.items, 0, p)
       ELSE primary

\* list.sort(key=...) is stable: x goes after the items whose key is not
\* greater than its own.
RECURSIVE StableSort(_)
StableSort(items) ==
    IF Len(items) <= 1 THEN items
    ELSE LET front == StableSort(SubSeq(items, 1, Len(items) - 1))
             x == items[Len(items)]
             n == Cardinality({k \in 1..Len(front) :
                                  front[k]._position <= x._position})
         IN SubSeq(front, 1, n) \o <<x>> \o SubSeq(front, n + 1, Len(front))

\* item.pop('_position', None).
PopPosition(item) == [k \in DOMAIN item \ {"_position"} |-> item[k]]

\* Lines 150-160 of extract_page_content: merge, sort and strip the keys.
page_data(p, tbls, text_content) ==
    LET all_content == StableSort(tbls \o text_content)
    IN [page_number |-> p,
        content |-> [k \in 1..Len(all_content) |-> PopPosition(all_content[k])]]

\* SaveParagraph made after the cursor has moved.
SaveParagraphLate(ln) ==
    IF current_paragraph # <<>>
    THEN Append(content,
                [type |-> "paragraph",
                 section |-> current_section',
                 sub_section |-> current_subsection',
                 text |-> Strip(Join(current_paragraph, <<" ">>)),
                 _position |-> ln])
    ELSE content

\* What content is once a pending paragraph is saved at position ln
\* (lines 248-254, 263-269, 278-284 and 294-299).
SaveParagraph(ln) ==
    IF current_paragraph # <<>>
    THEN Append(content,
                create_paragraph_dict(Join(current_paragraph, <<" ">>),
                                      page_num, ln))
    ELSE content

\* chart_dict tagged with the section of the page's last item.
chart_dict_of_page(base_image, img_index, p0) ==
    LET items == result.pages[p0 + 1].content
    IN [type |-> "chart",
        section |-> IF items = <<>> THEN None ELSE items[Len(items)].section,
        sub_section |-> IF items = <<>> THEN None
                        ELSE items[Len(items)].sub_section,
        description |-> [label |-> "Image/Chart", index |-> img_index + 1,
                         page |-> p0 + 1, suffix |-> ""],
        image_info |-> [width |-> base_image.width,
                        height |-> base_image.height,
                        ext |-> base_image.ext,
                        size |-> Len(base_image.image)],
        table_data |-> None]

\* The chart dictionary of lines 331-343 for the image at img_index of the
\* page at index p0 (both 0-based).
chart_dict(base_image, img_index, p0) ==
    [type |-> "chart",
     section |-> current_section,
     sub_section |-> current_subsection,
     description |-> [label |-> "Image/Chart", index |-> img_index + 1,
                      page |-> p0 + 1, suffix |-> ""],
     image_info |-> [width |-> base_image.width,
                     height |-> base_image.height,
                     ext |-> base_image.ext,
                     size |-> Len(base_image.image)],
     table_data |-> None]

\* ImageLoop with the try around the loop: the first image that raises
\* ends the page's images.
RECURSIVE ImageLoopStopsAtFailure(_, _, _)
ImageLoopStopsAtFailure(image_list, img_index, p0) ==
    IF img_index >= Len(image_list) THEN <<>>
    ELSE LET base_image == extract_image(image_list[img_index + 1][1])
         IN IF base_image.kind = "ok"
            THEN <<chart_dict(base_image, img_index, p0)>>
                     \o ImageLoopStopsAtFailure(image_list, img_index + 1, p0)
            ELSE <<>>

\* The loop of lines 323-349 over image_list[img_index..]: a chart for
\* every image that extracts, nothing for one that raises.
RECURSIVE ImageLoop(_, _, _)
ImageLoop(image_list, img_index, p0) ==
    IF img_index >= Len(image_list) THEN <<>>
    ELSE LET base_image == extract_image(image_list[img_index + 1][1])
         IN (IF base_image.kind = "ok"
             THEN <<chart_dict(base_image, img_index, p0)>>
             ELSE <<>>) \o ImageLoop(image_list, img_index + 1, p0)


\* ------------------------------------------------------------ operations

\* PDFContentExtractor(pdf_path): the cursor starts at (None, None).
Init ==
    /\ pc = "init"
    /\ runs = 0
    /\ camelot \in BOOLEAN
    /\ current_section = None
    /\ current_subsection = None
    /\ result = [total_pages |-> 0, pages |-> <<>>]
    /\ open_handles = {}
    /\ page_num = 0
    /\ tables = <<>>
    /\ lines = <<>>
    /\ line_num = 0
    /\ current_paragraph = <<>>
    /\ content = <<>>
    /\ pdf = [open |-> NotCalled, count |-> NotCalled, pages |-> <<>>,
              images |-> NotCalled]
    /\ budget = MaxInput
    /\ found = <<>>
    /\ camelot_calls = <<>>
    /\ prev = [pc |-> "init", pages |-> <<>>]

\* Lines 94-109 of extract_content: the path is checked, the result is
\* made and pdfplumber opens the file.
Call ==
    /\ runs' = runs + 1
    /\ prev' = [pc |-> pc, pages |-> result.pages]
    /\ result' = [total_pages |-> 0, pages |-> <<>>]
    /\ found' = <<>>
    /\ camelot_calls' = <<>>
    /\ page_num' = 0
    /\ \E o \in (IF runs >= 1 THEN {pdf.open} ELSE OpenResponses(budget)) :
          /\ pdf' = [pdf EXCEPT !.open = o]
          /\ budget' = IF runs >= 1 THEN budget ELSE budget - Cost(o)
          /\ pc' = IF o.kind = "opened" THEN "opened" ELSE "raised"
          /\ open_handles' = IF o.kind = "opened"
                             THEN open_handles \cup {"pdf"}
                             ELSE open_handles
    /\ UNCHANGED <<camelot, cursor, walker>>

\* The first call of extract_content.
ExtractContent == pc = "init" /\ Call

\* A further call of extract_content on the same extractor.
ExtractContentAgain ==
    /\ pc \in {"returned", "raised"}
    /\ runs < MaxRuns
    /\ Call

\* Line 110: len(pdf.pages).  When it raises, the with statement closes
\* the handle and extract_content raises.
CountPages ==
    /\ pc = "opened"
    /\ \E n \in (IF Replay THEN {pdf.count} ELSE CountResponses(budget)) :
          /\ pdf' = [pdf EXCEPT !.count = n]
          /\ budget' = IF Replay THEN budget ELSE budget - Cost(n)
          /\ IF n.kind = "count"
             THEN /\ result' = [result EXCEPT !.total_pages = n.items[1]]
                  /\ pc' = "pages"
                  /\ open_handles' = open_handles
             ELSE /\ result' = result
                  /\ pc' = "raised"
                  /\ open_handles' = open_handles \ {"pdf"}
    /\ UNCHANGED <<runs, camelot, cursor, page_num, walker, found,
                   camelot_calls, prev>>

\* What extract_page_content does of page p up to the line walk, with the
\* responses of page.extract_tables(), page.height, camelot.read_pdf() and
\* page.extract_text(): the tables are extracted, and a page without text
\* is assembled at once (line 238).
StartPage(p, t, h, c, x) ==
    /\ page_num' = p
    /\ pdf' = IF Replay THEN pdf
              ELSE [pdf EXCEPT !.pages = Append(@, [tables |-> t, height |-> h,
                                                    camelot |-> c, text |-> x])]
    /\ budget' = IF Replay THEN budget
                 ELSE budget - Cost(t) - Cost(h) - Cost(c) - Cost(x)
    /\ camelot_calls' = IF TriesCamelot(t, h, p)
                        THEN Append(camelot_calls, [pages |-> p, page_num |-> p])
                        ELSE camelot_calls
    /\ IF x.kind = "text"
       THEN /\ tables' = extract_tables(t, h, c, p)
            /\ lines' = x.items
            /\ pc' = "lines"
            /\ result' = result
       ELSE /\ tables' = <<>>
            /\ lines' = <<>>
            /\ pc' = "pages"
            /\ result' = [result EXCEPT !.pages =
                             Append(@, page_data(p, extract_tables(t, h, c, p),
                                                 <<>>))]
    /\ line_num' = 0
    /\ current_paragraph' = <<>>
    /\ content' = <<>>
    /\ UNCHANGED <<runs, camelot, cursor, open_handles, found, prev>>

\* Lines 112-114 and 144-147: the next page of the text pass.
BeginPage ==
    /\ pc = "pages"
    /\ page_num < result.total_pages
    /\ LET p == page_num + 1
           known == pdf.pages[p]
       IN \E t \in (IF Replay THEN {known.tables}
                    ELSE Responses(RawTables, budget)) :
          \E h \in (IF Replay THEN {known.height}
                    ELSE IF ReadsHeight(t)
                         THEN HeightResponses(budget - Cost(t))
                         ELSE {NotCalled}) :
          \E c \in (IF Replay THEN {known.camelot}
                    ELSE IF TriesCamelot(t, h, p)
                         THEN Responses(DataFrames, budget - Cost(t) - Cost(h))
                         ELSE {NotCalled}) :
          \E x \in (IF Replay THEN {known.text}
                    ELSE TextResponses(budget - Cost(t) - Cost(h) - Cost(c))) :
              StartPage(p, t, h, c, x)

\* SectionFound without the assignment of line 271.
SectionFoundStale(title) ==
    [section |-> current_section, sub_section |-> None]

\* SectionFound without the reset of line 272.
SectionFoundKeepsSubsection(title) ==
    [section |-> title, sub_section |-> current_subsection]

\* The cursor after a Section match (lines 271-272).
SectionFound(title) == [section |-> title, sub_section |-> None]

\* The cursor after a Subsection match (line 286).
SubsectionFound(title) ==
    [section |-> current_section, sub_section |-> title]

\* One turn of the loop of lines 244-291 of extract_text_content.  A
\* heading's paragraph is saved under the cursor as it is before the line.
WalkLine ==
    /\ pc = "lines"
    /\ line_num < Len(lines)
    /\ LET line == Strip(lines[line_num + 1])
           section_match == detect_section(line)
           subsection_match == detect_subsection(line)
       IN IF line = <<>>
          THEN /\ UNCHANGED <<cursor, found>>
               /\ content' = SaveParagraph(line_num)
               /\ current_paragraph' = <<>>
          ELSE IF Truthy(section_match)
          THEN /\ current_section' = SectionFound(section_match).section
               /\ current_subsection' = SectionFound(section_match).sub_section
               /\ content' = SaveParagraph(line_num)
               /\ current_paragraph' = <<>>
               /\ found' = Append(found, [level |-> "section",
                                          title |-> section_match,
                                          page |-> page_num,
                                          saved |-> Len(content')])
          ELSE IF Truthy(subsection_match)
          THEN /\ current_section' = SubsectionFound(subsection_match).section
               /\ current_subsection' =
                      SubsectionFound(subsection_match).sub_section
               /\ content' = SaveParagraph(line_num)
               /\ current_paragraph' = <<>>
               /\ found' = Append(found, [level |-> "subsection",
                                          title |-> subsection_match,
                                          page |-> page_num,
                                          saved |-> Len(content')])
          ELSE /\ UNCHANGED <<cursor, found>>
               /\ content' = content
               /\ current_paragraph' = Append(current_paragraph, line)
    /\ line_num' = line_num + 1
    /\ UNCHANGED <<pc, runs, camelot, result, open_handles, page_num, tables,
                   lines, pdf, budget, camelot_calls, prev>>

\* Lines 293-299 and 150-160, and line 115: the last paragraph is saved,
\* the page is assembled and appended to the result.
EndPage ==
    /\ pc = "lines"
    /\ line_num = Len(lines)
    /\ UNCHANGED cursor
    /\ result' = [result EXCEPT !.pages =
                     Append(@, page_data(page_num, tables,
                                         SaveParagraph(Len(lines))))]
    /\ pc' = "pages"
    /\ tables' = <<>>
    /\ lines' = <<>>
    /\ line_num' = 0
    /\ current_paragraph' = <<>>
    /\ content' = <<>>
    /\ UNCHANGED <<runs, camelot, open_handles, page_num, pdf, budget,
                   found, camelot_calls, prev>>

\* The end of the with statement of line 109.
ClosePdf ==
    /\ pc = "pages"
    /\ page_num = result.total_pages
    /\ open_handles' = open_handles \ {"pdf"}
    /\ pc' = "annotate"
    /\ UNCHANGED <<runs, camelot, cursor, result, page_num, walker, pdf,
                   budget, found, camelot_calls, prev>>

\* Lines 118 and 313-314: fitz.open().  When it raises, the except of line
\* 353 logs it and extract_content returns the result as it is.
OpenDoc ==
    /\ pc = "annotate"
    /\ \E r \in (IF Replay THEN {pdf.images}
                 ELSE ImageResponses(result.total_pages, budget)) :
          /\ pdf' = [pdf EXCEPT !.images = r]
          /\ budget' = IF Replay THEN budget
                       ELSE IF r.kind = "raise" THEN budget - 1
                       ELSE budget - TotalCost(r.items)
          /\ pc' = IF r.kind = "raise" THEN "returned" ELSE "images"
          /\ open_handles' = IF r.kind = "raise" THEN open_handles
                             ELSE open_handles \cup {"doc"}
    /\ page_num' = 0
    /\ UNCHANGED <<runs, camelot, cursor, result, walker, found,
                   camelot_calls, prev>>

\* One turn of the loop of lines 316-349.  When load_page() or
\* get_images() raises, the except of line 353 logs it and
\* extract_charts_and_images returns, past doc.close().
AnnotatePage ==
    /\ pc = "images"
    /\ page_num < Len(pdf.images.items)
    /\ LET image_list == pdf.images.items[page_num + 1]
       IN IF image_list.kind = "raise"
          THEN /\ pc' = "returned"
               /\ UNCHANGED <<result, page_num>>
          ELSE /\ result' = [result EXCEPT !.pages[page_num + 1].content =
                                @ \o ImageLoop(image_list.items, 0, page_num)]
               /\ page_num' = page_num + 1
               /\ pc' = pc
    /\ UNCHANGED <<runs, camelot, cursor, open_handles, walker, pdf, budget,
                   found, camelot_calls, prev>>

\* Line 351: doc.close(), and extract_content returns the result.
CloseDoc ==
    /\ pc = "images"
    /\ page_num = Len(pdf.images.items)
    /\ open_handles' = open_handles \ {"doc"}
    /\ pc' = "returned"
    /\ UNCHANGED <<runs, camelot, cursor, result, page_num, walker, pdf,
                   budget, found, camelot_calls, prev>>

\* One call of extract_content on a new extractor.
Next ==
    \/ ExtractContent
    \/ CountPages
    \/ BeginPage
    \/ WalkLine
    \/ EndPage
    \/ ClosePdf
    \/ OpenDoc
    \/ AnnotatePage
    \/ CloseDoc

Spec == Init /\ [][Next]_vars

\* Up to MaxRuns calls of extract_content on one extractor.
NextAgain == Next \/ ExtractContentAgain

SpecAgain == Init /\ [][NextAgain]_vars


\* ----------------------------------------------------- reading the result

\* The content list of page p of the result.
ContentOf(p) == result.pages[p].content

\* The items of a content list that are of the given types, in their order.
Only(items, types) == SelectSeq(items, LAMBDA it : it.type \in types)

\* How many of items[1..k] are paragraphs.
ParagraphRank(items, k) ==
    Cardinality({j \in 1..k : items[j].type = "paragraph"})

\* The heading matched after found[h] is on page NextHeadingPage(h); when
\* there is none it is past the last page.
NextHeadingPage(h) ==
    IF h < Len(found) THEN found[h + 1].page ELSE result.total_pages + 1

\* The 1-based indexes of the images of image_list that extract, ascending.
RECURSIVE Extractable(_, _)
Extractable(image_list, i) ==
    IF i > Len(image_list) THEN <<>>
    ELSE (IF extract_image(image_list[i][1]).kind = "ok" THEN <<i>> ELSE <<>>)
            \o Extractable(image_list, i + 1)

\* The image pass has started on the file's images.
ImagePassBegun ==
    pc \in {"images", "returned"} /\ pdf.images.kind = "images"

\* The pages whose turn of the image loop has ended without raising.
Annotated == IF ImagePassBegun THEN 1..page_num ELSE {}

\* A line is a heading when either detector matches it.
IsHeading(line) ==
    Truthy(detect_section(line)) \/ Truthy(detect_subsection(line))

\* ------------------------------------------------------------------- C1

\* C1 as stated: when a Section heading S is matched on page N and no
\* heading is matched afterwards through page N+k, every content item of
\* pages N..N+k (paragraph, table and chart) has section = S.
C1_EveryItemCarriesSection ==
    \A h \in 1..Len(found) :
        found[h].level = "section" =>
            \A p \in found[h].page..(NextHeadingPage(h) - 1) :
                p <= Len(result.pages) =>
                    \A k \in 1..Len(ContentOf(p)) :
                        ContentOf(p)[k].section = found[h].title

\* C1 amended: under the same condition, S is the section of every
\* Paragraph saved after the heading on page N, of every Paragraph and
\* Table of pages N+1..N+k, and, when no heading at all is matched after S,
\* of every Chart of pages N..N+k.
C1_SectionCarriesForward ==
    \A h \in 1..Len(found) :
        found[h].level = "section" =>
            \A p \in found[h].page..(NextHeadingPage(h) - 1) :
                p <= Len(result.pages) =>
                    \A k \in 1..Len(ContentOf(p)) :
                        LET it == ContentOf(p)[k]
                            covered ==
                                \/ /\ it.type = "paragraph"
                                   /\ \/ p > found[h].page
                                      \/ ParagraphRank(ContentOf(p), k)
                                             > found[h].saved
                                \/ it.type = "table" /\ p > found[h].page
                                \/ it.type = "chart" /\ h = Len(found)
                        IN covered => it.section = found[h].title

\* A run that matched a Section heading on page 1 and no heading after it,
\* saved a Paragraph after the heading and kept a Table on page 2, both
\* under that section.
C1_Witness ==
    /\ pc = "returned"
    /\ Len(result.pages) = 2
    /\ Len(found) = 1
    /\ found[1].level = "section"
    /\ found[1].page = 1
    /\ \E k \in 1..Len(ContentOf(1)) :
          /\ ContentOf(1)[k].type = "paragraph"
          /\ ContentOf(1)[k].section = found[1].title
    /\ \E k \in 1..Len(ContentOf(2)) :
          /\ ContentOf(2)[k].type = "table"
          /\ ContentOf(2)[k].section = found[1].title

\* ------------------------------------------------------------------- C2

\* The line a WalkLine step walks.
WalkedLine == Strip(lines[line_num + 1])

\* A step is a turn of the line loop.
IsWalkLine == pc = "lines" /\ line_num < Len(lines) /\ line_num' = line_num + 1

\* C2: during the text pass, a line that matches a Section rule sets
\* current_section to the matched title and current_subsection to None; a
\* line that matches only a Subsection rule sets current_subsection to the
\* matched title and leaves current_section; any other line (blank or
\* regular text) leaves both.
C2_TrackerTransitions ==
    [][IsWalkLine =>
          IF WalkedLine # <<>> /\ Truthy(detect_section(WalkedLine))
          THEN /\ current_section' = detect_section(WalkedLine)
               /\ current_subsection' = None
          ELSE IF WalkedLine # <<>> /\ Truthy(detect_subsection(WalkedLine))
          THEN /\ current_subsection' = detect_subsection(WalkedLine)
               /\ current_section' = current_section
          ELSE /\ current_section' = current_section
               /\ current_subsection' = current_subsection]_vars

\* The walker has matched a Subsection and then a Section, which reset the
\* subsection, and is now past a line of regular text.
C2_Witness ==
    /\ pc = "lines"
    /\ Len(found) = 2
    /\ found[1].level = "subsection"
    /\ found[2].level = "section"
    /\ current_section = found[2].title
    /\ current_subsection = None
    /\ current_paragraph # <<>>

\* ------------------------------------------------------------------- C3

\* The rows of a fallback table: its header row and its data rows, as
\* lines 201-203 put them together.
FrameRows(df) == 1 + Len(df.values)

\* The tables of page p: those of the result, or of the page in progress.
TablesOf(p) ==
    IF p <= Len(result.pages) THEN Only(ContentOf(p), {"table"}) ELSE tables

\* Page p has the table that its source returned at index i (1-based).
Emitted(p, i, suffix) ==
    \E k \in 1..Len(TablesOf(p)) :
        /\ TablesOf(p)[k].description.index = i
        /\ TablesOf(p)[k].description.suffix = suffix

\* C3: on every page, a table that either source returned with at most one
\* row is not in the output, and every Table item has at least two rows.
C3_RowsExceedOne ==
    \A p \in 1..Len(pdf.pages) :
        /\ \A k \in 1..Len(TablesOf(p)) : Len(TablesOf(p)[k].table_data) >= 2
        /\ LET t == pdf.pages[p].tables
           IN \A i \in 1..Len(t.items) :
                  Len(t.items[i]) <= 1 => ~Emitted(p, i, "")
        /\ LET c == pdf.pages[p].camelot
           IN \A i \in 1..Len(c.items) :
                  FrameRows(c.items[i]) <= 1 => ~Emitted(p, i, "(camelot)")

\* A page whose primary source returned a header-only table and then a
\* table of two rows: only the second is in the output.
C3_Witness ==
    /\ pc = "returned"
    /\ \E p \in 1..Len(result.pages) :
          LET t == pdf.pages[p].tables
          IN /\ Len(t.items) = 2
             /\ Len(t.items[1]) = 1
             /\ Len(t.items[2]) = 2
             /\ Len(TablesOf(p)) = 1
             /\ Emitted(p, 2, "")

\* ------------------------------------------------------------------- C4

\* C4: a second run of extract_content on the same unchanged input gives
\* the pages of the first, whatever cursor the first run left behind.
C4_SecondRunSamePages ==
    (runs = 2 /\ pc = "returned" /\ prev.pc = "returned") =>
        result.pages = prev.pages

\* ------------------------------------------------------------------- C5

\* C5: once extract_content has returned or raised, neither document
\* handle is open.
C5_HandlesClosed ==
    pc \in {"returned", "raised"} => open_handles = {}

\* ------------------------------------------------------------------- C6

\* The charts of page p.
ChartsOf(p) == Only(ContentOf(p), {"chart"})

\* C6: when listing the images of page i fails, the run returns, page i
\* has no Chart, and every other page has one Chart for each of its images
\* that extracts.
C6_ListingFailureIsolated ==
    (pc = "returned" /\ pdf.images.kind = "images") =>
        \A i \in 1..Len(pdf.images.items) :
            pdf.images.items[i].kind = "raise" =>
                /\ ChartsOf(i) = <<>>
                /\ \A j \in 1..Len(pdf.images.items) :
                       pdf.images.items[j].kind = "ok" =>
                           Len(ChartsOf(j)) =
                               Len(Extractable(pdf.images.items[j].items, 1))


\* ------------------------------------------------------------------- C7

\* A step leaves the Paragraph and Table items of every page as they are.
KeepsAssembledOrder ==
    /\ Len(result'.pages) = Len(result.pages)
    /\ \A p \in 1..Len(result.pages) :
           Only(result'.pages[p].content, {"paragraph", "table"})
               = Only(ContentOf(p), {"paragraph", "table"})

\* C7: in every page's content list the Chart items come after all
\* Paragraph and Table items and are, in image-list order, one for each
\* image that extracted (an image that fails gives none and does not stop
\* the others); the image pass leaves the Paragraph and Table items in the
\* order the assembler gave them.
C7_ChartsLastInOrder ==
    /\ [](\A p \in 1..Len(result.pages) :
            LET items == ContentOf(p)
                charts == ChartsOf(p)
                want == IF p \in Annotated
                        THEN Extractable(pdf.images.items[p].items, 1)
                        ELSE <<>>
            IN /\ \A j \in 1..Len(items) : \A k \in (j + 1)..Len(items) :
                      items[j].type = "chart" => items[k].type = "chart"
               /\ Len(charts) = Len(want)
               /\ \A k \in 1..Len(charts) :
                      /\ charts[k].description.index = want[k]
                      /\ charts[k].description.page = p)
    /\ [][(pc \in {"annotate", "images"}) => KeepsAssembledOrder]_vars

\* A page that ends with the Chart of its second image, after a Paragraph:
\* its first image failed to extract.
C7_Witness ==
    /\ pc = "returned"
    /\ \E p \in 1..Len(result.pages) :
          /\ p \in Annotated
          /\ Len(pdf.images.items[p].items) = 2
          /\ Len(ContentOf(p)) = 2
          /\ ContentOf(p)[1].type = "paragraph"
          /\ ContentOf(p)[2].type = "chart"
          /\ ContentOf(p)[2].description.index = 2

\* ------------------------------------------------------------------- C8

\* The camelot calls made while page p was extracted.
CallsFor(p) == SelectSeq(camelot_calls, LAMBDA call : call.page_num = p)

\* Page p has a table of the fallback source.
HasFallbackTable(p) ==
    \E k \in 1..Len(TablesOf(p)) :
        TablesOf(p)[k].description.suffix = "(camelot)"

\* C8 as stated: the fallback source is invoked for a page only when it is
\* available and the primary source returned no table for the page (or
\* failed), each time for that page alone; when the primary source returned
\* a table, the fallback is not invoked and no fallback table is on the page.
C8_FallbackOnlyWhenNoneReturned ==
    \A p \in 1..Len(pdf.pages) :
        LET t == pdf.pages[p].tables
        IN /\ CallsFor(p) # <<>> => camelot /\ t.items = <<>>
           /\ \A k \in 1..Len(CallsFor(p)) : CallsFor(p)[k].pages = p
           /\ t.items # <<>> => CallsFor(p) = <<>> /\ ~HasFallbackTable(p)

\* The primary source gave page p a table that was kept.
PrimaryKept(p) ==
    LET t == pdf.pages[p].tables
    IN \E i \in 1..Len(t.items) : Len(t.items[i]) > 1

\* C8 amended: the fallback source is invoked for a page only when it is
\* available and no table of the primary source was kept for the page (it
\* returned none, only tables of at most one row, or failed), each time
\* for that page alone; when a table of the primary source was kept, the
\* fallback is not invoked and no fallback table is on the page.
C8_FallbackOnlyWhenNoneKept ==
    \A p \in 1..Len(pdf.pages) :
        /\ CallsFor(p) # <<>> => camelot /\ ~PrimaryKept(p)
        /\ \A k \in 1..Len(CallsFor(p)) : CallsFor(p)[k].pages = p
        /\ PrimaryKept(p) => CallsFor(p) = <<>> /\ ~HasFallbackTable(p)

\* The primary source returned a header-only table for a page, and the
\* page has a table of the fallback source.
C8_Witness ==
    /\ pc = "returned"
    /\ \E p \in 1..Len(result.pages) :
          /\ Len(pdf.pages[p].tables.items) = 1
          /\ Len(CallsFor(p)) = 1
          /\ HasFallbackTable(p)

\* ------------------------------------------------------------------- C9

\* The Paragraph the buffer makes when it is saved at the line walked, under
\* the cursor as it is before the line.
Pending(ln) ==
    [type |-> "paragraph",
     section |-> current_section,
     sub_section |-> current_subsection,
     text |-> Strip(Join(current_paragraph, <<" ">>)),
     _position |-> ln]

\* A turn of the line loop at a heading empties the buffer, into one
\* Paragraph when it held lines; a turn adds nothing else to content.
SavesUnderOldCursor ==
    /\ IsHeading(WalkedLine) =>
           /\ current_paragraph' = <<>>
           /\ content' = IF current_paragraph # <<>>
                         THEN Append(content, Pending(line_num))
                         ELSE content
    /\ content' # content => content' = Append(content, Pending(line_num))

\* The page appended has, as its Paragraphs, those saved during the walk
\* and the one saved at the end of the page.
AssemblesWhatWasSaved ==
    LET saved == IF current_paragraph # <<>>
                 THEN Append(content, Pending(Len(lines)))
                 ELSE content
    IN Only(result'.pages[Len(result'.pages)].content, {"paragraph"})
           = [k \in 1..Len(saved) |-> PopPosition(saved[k])]

\* C9: a heading reached with a non-empty buffer saves the buffer as one
\* Paragraph under the cursor in force before the heading, and then moves
\* the cursor; no heading line gets into the buffer, and so into no
\* Paragraph, and every Paragraph saved, at a line or at the end of the
\* page, carries the cursor of that moment.
C9_SavedBeforeCursorMoves ==
    /\ [](\A i \in 1..Len(current_paragraph) :
            current_paragraph[i] # <<>> /\ ~IsHeading(current_paragraph[i]))
    /\ [][IsWalkLine => SavesUnderOldCursor]_vars
    /\ [][(pc = "lines" /\ pc' = "pages") => AssemblesWhatWasSaved]_vars

\* The walker saved a Paragraph at a Section heading: the Paragraph has the
\* section from before the heading, and the cursor has the heading's.
C9_Witness ==
    /\ pc = "lines"
    /\ Len(found) = 1
    /\ found[1].level = "section"
    /\ found[1].saved = 1
    /\ Len(content) = 1
    /\ content[1].section = None
    /\ current_section = found[1].title

\* ------------------------------------------------------------------ C10

\* C10: every Chart of a run, on every page, carries the cursor as the text
\* pass left it after the last page, which the image pass does not change.
C10_ChartsCarryFinalCursor ==
    /\ [](\A p \in 1..Len(result.pages) :
            \A k \in 1..Len(ChartsOf(p)) :
                /\ ChartsOf(p)[k].section = current_section
                /\ ChartsOf(p)[k].sub_section = current_subsection)
    /\ [][(pc \in {"annotate", "images"}) => UNCHANGED cursor]_vars

\* Both pages have a Chart and the only heading is on page 2: the Chart of
\* page 1 carries that heading's section.
C10_Witness ==
    /\ pc = "returned"
    /\ Len(result.pages) = 2
    /\ Len(found) = 1
    /\ found[1].level = "section"
    /\ found[1].page = 2
    /\ ChartsOf(1) # <<>>
    /\ ChartsOf(2) # <<>>
    /\ ChartsOf(1)[1].section = found[1].title

====
